---- MODULE Spec2Model ----
(***************************************************************************)
(* Session pairing orchestrator of pages/api (request-pairing, sessions,   *)
(* session-status).  The process is a single-threaded event loop: every    *)
(* action below is one run-to-completion segment of the code, from one     *)
(* suspension point (await) to the next.                                   *)
(***************************************************************************)
EXTENDS Integers, Naturals, Sequences, FiniteSets, TLC

\* ---------------------------------------------------------------- bounds
MaxCalls  == 2    \* pairing requests made during a run
MaxPhone  == 1    \* distinct (already cleaned) phone numbers 1..MaxPhone
MaxTime   == 1    \* Date.now() readings 0..MaxTime
MaxEvents == 2    \* connection.update events emitted during a run
MaxFiles  == 1    \* credential files 1..MaxFiles a staging directory may hold

\* bounds of SpecDeep (one pairing request): longer event sequences, more files
DeepTime   == 1
DeepEvents == 3
DeepFiles  == 2

\* bounds of SpecPoll (one pairing request and the browser polling for it):
\* timer callbacks run and requests in flight at a time
MaxPolls    == 62
MaxInflight == 1

\* bound of SpecCode (the pairing of one request): the lengths 1..MaxCodeLen
\* of the codes the transport may hand out
MaxCodeLen == 9

\* ------------------------------------------------------- phone numbers
\* strings are sequences of characters
Digits == {"0", "1", "2", "3", "4", "5", "6", "7", "8", "9"}
IsDigit(ch) == ch \in Digits

FirstDigit == <<"1", "2", "3", "4", "5", "6", "7", "8", "9">>
NineDigits == <<"2", "3", "4", "5", "6", "7", "8", "9", "0">>

\* the p-th cleaned phone number of the model (ten digits)
PhoneNumberOf(p) == <<FirstDigit[p]>> \o NineDigits

Calls  == 1..MaxCalls
Phones == {PhoneNumberOf(p) : p \in 1..MaxPhone}

\* req.body.phoneNumber: the numbers as they are and as a user may type them
ValidInputs ==
    Phones \cup {<<"+">> \o n : n \in Phones}
           \cup {SubSeq(n, 1, 3) \o <<"-">> \o SubSeq(n, 4, 10) : n \in Phones}

\* ... missing, with a leading zero, too short, too long, without digits
InvalidInputs ==
    {<<>>,
     <<"0">> \o NineDigits,
     <<"+", "0">> \o NineDigits,
     NineDigits,
     NineDigits \o <<"1", "2", "3", "4", "5", "6", "7">>,
     <<"a", "b", "c">>}

RawInputs == ValidInputs \cup InvalidInputs

MinDigits == 10
MaxDigits == 15

\* pollSessionStatus: const maxAttempts = 60
maxAttempts == 60

\* phoneNumber.replace(/\D/g, '')
CleanNumber(raw) == SelectSeq(raw, IsDigit)

\* the checks of the POST handler, in their order: "ok" or the 400 answered
ValidationErrorOnRaw(raw) ==
    IF raw = <<>> THEN "Phone number is required"
    ELSE IF raw[1] = "0" THEN "Phone number cannot start with 0"
    ELSE IF Len(CleanNumber(raw)) < MinDigits \/ Len(CleanNumber(raw)) > MaxDigits
    THEN "Phone number must be 10-15 digits"
    ELSE "ok"

ValidationError(raw) ==
    IF raw = <<>> THEN "Phone number is required"
    ELSE IF CleanNumber(raw) # <<>> /\ CleanNumber(raw)[1] = "0"
    THEN "Phone number cannot start with 0"
    ELSE IF Len(CleanNumber(raw)) < MinDigits \/ Len(CleanNumber(raw)) > MaxDigits
    THEN "Phone number must be 10-15 digits"
    ELSE "ok"

Times  == 0..MaxTime
Files  == 1..MaxFiles
DeepFileSet == 1..DeepFiles

\* ------------------------------------------------------- undefined values
NoTime == -1      \* session.connectedAt never assigned
NoUrl  == <<>>    \* session.githubUrl never assigned
NoCode == <<>>    \* pairingCode = null
NoSock == 0       \* a record whose handle was dropped

\* pollSessionStatus was not called
NoPoll == [sessionId |-> <<>>, active |-> FALSE, attempts |-> 0, inflight |-> 0]

\* GITHUB_REPO_URL as read from the environment at module load
\* (unset, a repository URL, a value without a repository part; the direct
\* form "o/r" parses to the same owner and repo as the URL)
RepoUrls == {"unset", "github.com/o/r", "o"}

VARIABLES
    now,            \* Date.now()
    repoUrl,        \* GITHUB_REPO_URL
    fs,             \* /tmp/sessions/<phone>: [exists, files, registered]
    remote,         \* blobs in the repository: set of <<phone, file>>
    activeSessions, \* global.activeSessions: sessionId -> record object
    keyOrder,       \* iteration order of the Map's keys
    sessionObj,     \* the record objects, by the call that created them
    nCalls,         \* pairing requests received so far
    pc,             \* position of each request in handler/startPairing
    callPhone,      \* phoneNumber of each call
    callTime,       \* the Date.now() reading that went into its sessionId
    pairingCode,    \* pairingCode of each call
    res,            \* HTTP status sent for each call (0: none yet)
    socks,          \* calls whose makeWASocket returned a socket
    subscribed,     \* calls whose connection.update listener is attached
    emitted,        \* connection.update events emitted by each socket
    lost,           \* ... of which emitted while no listener was attached
    uploads,        \* Open handlers suspended inside uploadSessionToGithub
    ended,          \* the calls of uploadSessionToGithub that have settled
    poll            \* the browser's pollSessionStatus: its interval timer

vars == <<now, repoUrl, fs, remote, activeSessions, keyOrder, sessionObj,
          nCalls, pc, callPhone, callTime, pairingCode, res, socks,
          subscribed, emitted, lost, uploads, ended, poll>>

callVars == <<nCalls, pc, callPhone, callTime, pairingCode, res>>
sockVars == <<socks, subscribed>>
regVars  == <<activeSessions, keyOrder, sessionObj>>

\* ------------------------------------------------------------ pure parts

\* `session_${phoneNumber}_${Date.now()}`
SessionIdOf(phone, time) == <<"session", phone, time>>

\* path.join('/tmp', 'sessions', phoneNumber)
SessionPathOf(phone) == <<"tmp", "sessions", phone>>

SessionId(c)   == SessionIdOf(callPhone[c], callTime[c])
SessionPath(c) == SessionPathOf(callPhone[c])

Paths == {SessionPathOf(CleanNumber(raw)) : raw \in RawInputs}

NoDir == [exists |-> FALSE, files |-> {}, registered |-> FALSE]

\* parseGithubRepo
parseGithubRepo(url) ==
    IF url = "unset" THEN [threw |-> TRUE, owner |-> "", repo |-> ""]
    ELSE IF url = "github.com/o/r" THEN [threw |-> FALSE, owner |-> "o", repo |-> "r"]
    ELSE IF url = "o/r" THEN [threw |-> FALSE, owner |-> "o", repo |-> "r"]
    ELSE [threw |-> FALSE, owner |-> url, repo |-> "undefined"]

\* `https://github.com/${owner}/${repo}/tree/main/${sessionFolder}`
GithubUrlOf(url, phone) ==
    <<parseGithubRepo(url).owner, parseGithubRepo(url).repo, "sessions", phone>>

\* fs.readdirSync: the names in sorted order
RECURSIVE SortedSeq(_)
SortedSeq(S) ==
    IF S = {} THEN <<>>
    ELSE LET m == CHOOSE x \in S : \A y \in S : x <= y
         IN  <<m>> \o SortedSeq(S \ {m})

\* code?.match(/.{1,4}/g)?.join("-") || code
RECURSIVE FormatCodeTrailing(_)
FormatCodeTrailing(code) ==
    IF code = <<>> THEN code
    ELSE IF Len(code) <= 4 THEN code \o <<"-">>
    ELSE SubSeq(code, 1, 4) \o <<"-">> \o
             FormatCodeTrailing(SubSeq(code, 5, Len(code)))

RECURSIVE FormatCode(_)
FormatCode(code) ==
    IF Len(code) <= 4 THEN code
    ELSE SubSeq(code, 1, 4) \o <<"-">> \o FormatCode(SubSeq(code, 5, Len(code)))

\* the codes sock.requestPairingCode resolves to: strings over the
\* transport's alphabet; the transport hands out codes of eight characters
CodeAlphabet == <<"A", "B", "C", "D", "E", "F", "G", "H">>

RawCodeOfLen(n) == [i \in 1..n |-> CodeAlphabet[((i - 1) % 8) + 1]]

RawCode == RawCodeOfLen(8)

RawCodes == {RawCodeOfLen(n) : n \in 1..MaxCodeLen}

\* the record stored by global.activeSessions.set(sessionId, {...})
NewSessionRecordConnected(phone, c, path) ==
    [phoneNumber |-> phone, status |-> "connected", sock |-> c,
     sessionPath |-> path, connectedAt |-> NoTime, githubUrl |-> NoUrl]

NewSessionRecord(phone, c, path) ==
    [phoneNumber |-> phone, status |-> "waiting", sock |-> c,
     sessionPath |-> path, connectedAt |-> NoTime, githubUrl |-> NoUrl]

\* session-status handler: 404 or the projection of the record
GetStatusLiveOnly(id) ==
    IF \/ id \notin DOMAIN activeSessions
       \/ sessionObj[activeSessions[id]].status = "disconnected"
    THEN [code |-> 404, status |-> "", phoneNumber |-> <<>>,
          connectedAt |-> NoTime, githubUrl |-> NoUrl]
    ELSE LET session == sessionObj[activeSessions[id]]
         IN  [code |-> 200, status |-> session.status,
              phoneNumber |-> session.phoneNumber,
              connectedAt |-> session.connectedAt,
              githubUrl |-> session.githubUrl]

GetStatus(id) ==
    IF id \notin DOMAIN activeSessions
    THEN [code |-> 404, status |-> "", phoneNumber |-> <<>>,
          connectedAt |-> NoTime, githubUrl |-> NoUrl]
    ELSE LET session == sessionObj[activeSessions[id]]
         IN  [code |-> 200, status |-> session.status,
              phoneNumber |-> session.phoneNumber,
              connectedAt |-> session.connectedAt,
              githubUrl |-> session.githubUrl]

\* sessions handler: the loop over global.activeSessions.entries() that
\* pushes the connected records
RECURSIVE ListFromNotDisconnected(_)
ListFromNotDisconnected(keys) ==
    IF keys = <<>> THEN <<>>
    ELSE LET session == sessionObj[activeSessions[Head(keys)]] IN
         (IF session.status # "disconnected"
          THEN <<[id |-> Head(keys), phoneNumber |-> session.phoneNumber,
                  connectedAt |-> session.connectedAt,
                  lastActivity |-> session.connectedAt,
                  githubUrl |-> session.githubUrl]>>
          ELSE <<>>) \o ListFromNotDisconnected(Tail(keys))

RECURSIVE ListFrom(_)
ListFrom(keys) ==
    IF keys = <<>> THEN <<>>
    ELSE LET session == sessionObj[activeSessions[Head(keys)]] IN
         (IF session.status = "connected"
          THEN <<[id |-> Head(keys), phoneNumber |-> session.phoneNumber,
                  connectedAt |-> session.connectedAt,
                  lastActivity |-> session.connectedAt,
                  githubUrl |-> session.githubUrl]>>
          ELSE <<>>) \o ListFrom(Tail(keys))

\* the body of the 200 response of the sessions handler
ListConnected == ListFrom(keyOrder)

\* ------------------------------------------------------------------ Init
Init ==
    /\ now = 0
    /\ repoUrl \in RepoUrls
    /\ fs = [p \in Paths |-> NoDir]
    /\ remote = {}
    /\ activeSessions = [i \in {} |-> 0]
    /\ keyOrder = <<>>
    /\ sessionObj = [i \in {} |-> 0]
    /\ nCalls = 0
    /\ pc = [c \in Calls |-> "idle"]
    /\ callPhone = [c \in Calls |-> <<>>]
    /\ callTime = [c \in Calls |-> 0]
    /\ pairingCode = [c \in Calls |-> NoCode]
    /\ res = [c \in Calls |-> 0]
    /\ socks = {}
    /\ subscribed = {}
    /\ emitted = [c \in Calls |-> 0]
    /\ lost = [c \in Calls |-> 0]
    /\ uploads = {}
    /\ ended = {}
    /\ poll = NoPoll

\* the clock advances
Tick ==
    /\ now' = now + 1
    /\ UNCHANGED <<repoUrl, fs, remote, regVars, callVars, sockVars,
                   emitted, lost, uploads, ended, poll>>


\* ------------------------------------------- handler and startPairing
\* POST handler with a body that fails a check: 400, startPairing is not
\* called
RejectPairing(raw) ==
    /\ ValidationError(raw) # "ok"
    /\ LET c == nCalls + 1 IN
        /\ nCalls' = c
        /\ pc' = [pc EXCEPT ![c] = "rejected"]
        /\ res' = [res EXCEPT ![c] = 400]
    /\ UNCHANGED <<now, repoUrl, fs, remote, regVars, callPhone, callTime,
                   pairingCode, sockVars, emitted, lost, uploads, ended,
                   poll>>

\* POST handler with a valid body, up to the first await of startPairing:
\* the id and the path are computed from the cleaned number, the staging
\* directory is created when it is missing
RequestPairing(raw) ==
    /\ ValidationError(raw) = "ok"
    /\ LET c == nCalls + 1
           phone == CleanNumber(raw) IN
        /\ nCalls' = c
        /\ callPhone' = [callPhone EXCEPT ![c] = phone]
        /\ callTime' = [callTime EXCEPT ![c] = now]
        /\ fs' = [fs EXCEPT ![SessionPathOf(phone)].exists = TRUE]
        /\ pc' = [pc EXCEPT ![c] = "auth"]
    /\ UNCHANGED <<now, repoUrl, remote, regVars, pairingCode, res, sockVars,
                   emitted, lost, uploads, ended, poll>>

\* fs.mkdirSync throws: the error leaves startPairing before its try block
\* and is answered by the catch of the POST handler
RequestPairingMkdirThrows(raw) ==
    /\ ValidationError(raw) = "ok"
    /\ ~fs[SessionPathOf(CleanNumber(raw))].exists
    /\ LET c == nCalls + 1 IN
        /\ nCalls' = c
        /\ callPhone' = [callPhone EXCEPT ![c] = CleanNumber(raw)]
        /\ callTime' = [callTime EXCEPT ![c] = now]
        /\ pc' = [pc EXCEPT ![c] = "failed"]
        /\ res' = [res EXCEPT ![c] = 500]
    /\ UNCHANGED <<now, repoUrl, fs, remote, regVars, pairingCode, sockVars,
                   emitted, lost, uploads, ended, poll>>

\* await useMultiFileAuthState(sessionPath) rejects
AuthStateRejected(c) ==
    /\ pc[c] = "auth"
    /\ pc' = [pc EXCEPT ![c] = "failed"]
    /\ res' = [res EXCEPT ![c] = 500]
    /\ UNCHANGED <<now, repoUrl, fs, remote, regVars, nCalls, callPhone,
                   callTime, pairingCode, sockVars, emitted, lost, uploads, ended,
                   poll>>

\* useMultiFileAuthState resolved, makeWASocket throws
MakeSocketThrows(c) ==
    /\ pc[c] = "auth"
    /\ fs' = [fs EXCEPT ![SessionPath(c)].exists = TRUE]
    /\ pc' = [pc EXCEPT ![c] = "failed"]
    /\ res' = [res EXCEPT ![c] = 500]
    /\ UNCHANGED <<now, repoUrl, remote, regVars, nCalls, callPhone,
                   callTime, pairingCode, sockVars, emitted, lost, uploads, ended,
                   poll>>

\* global.activeSessions.set(sessionId, {...}) by call c
StoreSession(c) ==
    /\ sessionObj' = sessionObj @@
           (c :> NewSessionRecord(callPhone[c], c, SessionPath(c)))
    /\ activeSessions' =
           IF SessionId(c) \in DOMAIN activeSessions
           THEN [activeSessions EXCEPT ![SessionId(c)] = c]
           ELSE activeSessions @@ (SessionId(c) :> c)
    /\ keyOrder' =
           IF SessionId(c) \in DOMAIN activeSessions
           THEN keyOrder
           ELSE Append(keyOrder, SessionId(c))

\* the socket is made and the record stored; the credentials are not
\* registered, so the code runs on to await sock.requestPairingCode
StartPairingRequestCodeAlways(c) ==
    /\ pc[c] = "auth"
    /\ fs' = [fs EXCEPT ![SessionPath(c)].exists = TRUE]
    /\ socks' = socks \cup {c}
    /\ StoreSession(c)
    /\ pc' = [pc EXCEPT ![c] = "requesting"]
    /\ UNCHANGED <<now, repoUrl, remote, nCalls, callPhone, callTime,
                   pairingCode, res, subscribed, emitted, lost, uploads, ended,
                   poll>>

StartPairingRequestCode(c) ==
    /\ pc[c] = "auth"
    /\ ~fs[SessionPath(c)].registered
    /\ fs' = [fs EXCEPT ![SessionPath(c)].exists = TRUE]
    /\ socks' = socks \cup {c}
    /\ StoreSession(c)
    /\ pc' = [pc EXCEPT ![c] = "requesting"]
    /\ UNCHANGED <<now, repoUrl, remote, nCalls, callPhone, callTime,
                   pairingCode, res, subscribed, emitted, lost, uploads, ended,
                   poll>>

\* the socket is made and the record stored; the credentials are
\* registered: no code is requested, the listeners are attached, 200 is sent
StartPairingResumedUnstored(c) ==
    /\ pc[c] = "auth"
    /\ fs[SessionPath(c)].registered
    /\ fs' = [fs EXCEPT ![SessionPath(c)].exists = TRUE]
    /\ socks' = socks \cup {c}
    /\ subscribed' = subscribed \cup {c}
    /\ pc' = [pc EXCEPT ![c] = "returned"]
    /\ res' = [res EXCEPT ![c] = 200]
    /\ UNCHANGED <<now, repoUrl, remote, regVars, nCalls, callPhone, callTime,
                   pairingCode, emitted, lost, uploads, ended, poll>>

StartPairingResumed(c) ==
    /\ pc[c] = "auth"
    /\ fs[SessionPath(c)].registered
    /\ fs' = [fs EXCEPT ![SessionPath(c)].exists = TRUE]
    /\ socks' = socks \cup {c}
    /\ StoreSession(c)
    /\ subscribed' = subscribed \cup {c}
    /\ pc' = [pc EXCEPT ![c] = "returned"]
    /\ res' = [res EXCEPT ![c] = 200]
    /\ UNCHANGED <<now, repoUrl, remote, nCalls, callPhone, callTime,
                   pairingCode, emitted, lost, uploads, ended, poll>>

\* await sock.requestPairingCode resolves with code: the code is formatted,
\* the listeners are attached, 200 is sent
PairingCodeResolved(c, code) ==
    /\ pc[c] = "requesting"
    /\ pairingCode' = [pairingCode EXCEPT ![c] = FormatCode(code)]
    /\ subscribed' = subscribed \cup {c}
    /\ pc' = [pc EXCEPT ![c] = "returned"]
    /\ res' = [res EXCEPT ![c] = 200]
    /\ UNCHANGED <<now, repoUrl, fs, remote, regVars, nCalls, callPhone,
                   callTime, socks, emitted, lost, uploads, ended,
                   poll>>

\* await sock.requestPairingCode rejects: catch logs and rethrows, the POST
\* handler answers 500; the record stored before stays as it is
PairingCodeRejectedMarksFailed(c) ==
    /\ pc[c] = "requesting"
    /\ pc' = [pc EXCEPT ![c] = "failed"]
    /\ res' = [res EXCEPT ![c] = 500]
    /\ sessionObj' = [sessionObj EXCEPT ![c].status = "failed"]
    /\ UNCHANGED <<now, repoUrl, fs, remote, activeSessions, keyOrder, nCalls,
                   callPhone, callTime, pairingCode, sockVars, emitted, lost,
                   uploads, ended, poll>>

PairingCodeRejected(c) ==
    /\ pc[c] = "requesting"
    /\ pc' = [pc EXCEPT ![c] = "failed"]
    /\ res' = [res EXCEPT ![c] = 500]
    /\ UNCHANGED <<now, repoUrl, fs, remote, regVars, nCalls, callPhone,
                   callTime, pairingCode, sockVars, emitted, lost, uploads, ended,
                   poll>>

\* creds.update: saveCreds writes a credential file into the staging
\* directory (the write fails when the directory is gone)
CredsUpdate(c, f, reg) ==
    /\ c \in subscribed
    /\ fs[SessionPath(c)].exists
    /\ fs' = [fs EXCEPT ![SessionPath(c)].files = @ \cup {f},
                        ![SessionPath(c)].registered = @ \/ reg]
    /\ UNCHANGED <<now, repoUrl, remote, regVars, callVars, sockVars,
                   emitted, lost, uploads, ended, poll>>


\* ------------------------------------------------- connection.update
\* the record the listener of call c reads: activeSessions.get(sessionId)
SessionOfLatest(c) == activeSessions[keyOrder[Len(keyOrder)]]

SessionOf(c) == activeSessions[SessionId(c)]

\* uploadSessionToGithub up to its first await, called by the listener of
\* socket c: parseGithubRepo or readdirSync throws and the promise rejects,
\* or the directory is empty and the URL is returned without any await, or
\* the first file is read and the upload suspends in getContent
UploadOutcome(c) ==
    LET dir == fs[SessionPath(c)] IN
    IF parseGithubRepo(repoUrl).threw \/ ~dir.exists THEN "rejected"
    ELSE IF dir.files = {} THEN "returned"
    ELSE "suspended"

\* the listener of the n-th event of socket c, suspended in the upload with
\* the record object s it read; listed are the names readdirSync returned,
\* tried the files whose put was issued, stored those whose put succeeded
UploadTask(c, n, s) ==
    [sock |-> c, n |-> n, session |-> s,
     files |-> SortedSeq(fs[SessionPath(c)].files),
     phase |-> "getContent", sha |-> FALSE,
     listed |-> fs[SessionPath(c)].files, tried |-> {}, stored |-> {}]

\* a settled call of uploadSessionToGithub for record object s: how it
\* ended ("configError": parseGithubRepo threw, "readError": readdirSync or
\* readFileSync threw, "returned": the URL was returned and written to
\* session.githubUrl) and what it had listed, tried and stored
Ended(s, outcome, listed, tried, stored) ==
    [session |-> s, outcome |-> outcome,
     listed |-> listed, tried |-> tried, stored |-> stored]

\* the upload that settles inside the Open listener itself
EndedAtOpen(c) ==
    IF parseGithubRepo(repoUrl).threw
    THEN {Ended(SessionOf(c), "configError", {}, {}, {})}
    ELSE IF ~fs[SessionPath(c)].exists
    THEN {Ended(SessionOf(c), "readError", {}, {}, {})}
    ELSE IF fs[SessionPath(c)].files = {}
    THEN {Ended(SessionOf(c), "returned", {}, {}, {})}
    ELSE {}

RECURSIVE SumTo(_, _)
SumTo(f, n) == IF n = 0 THEN 0 ELSE f[n] + SumTo(f, n - 1)

\* the events emitted so far by all sockets
Emitted == SumTo(emitted, MaxCalls)

\* an event emitted while no listener is attached reaches nobody
EventLost(c) ==
    /\ c \in socks
    /\ c \notin subscribed
    /\ emitted' = [emitted EXCEPT ![c] = @ + 1]
    /\ lost' = [lost EXCEPT ![c] = @ + 1]
    /\ UNCHANGED <<now, repoUrl, fs, remote, regVars, callVars, sockVars,
                   uploads, ended, poll>>

\* session.status = 'connected'; session.connectedAt = Date.now()
MarkConnectedNoStamp(session, t) ==
    [session EXCEPT !.status = "connected"]

MarkConnected(session, t) ==
    [session EXCEPT !.status = "connected", !.connectedAt = t]

\* connection === 'open': status and connectedAt are written and the upload
\* is called; when it settles without a real suspension the listener's
\* continuation runs before any other event is handled
ConnectionOpen(c) ==
    /\ c \in subscribed
    /\ emitted' = [emitted EXCEPT ![c] = @ + 1]
    /\ sessionObj' = [sessionObj EXCEPT
           ![SessionOf(c)] =
               [MarkConnected(@, now) EXCEPT
                   !.githubUrl = IF UploadOutcome(c) = "returned"
                                 THEN GithubUrlOf(repoUrl, callPhone[c])
                                 ELSE @]]
    /\ uploads' = IF UploadOutcome(c) = "suspended"
                  THEN uploads \cup {UploadTask(c, emitted[c] + 1, SessionOf(c))}
                  ELSE uploads
    /\ ended' = ended \cup EndedAtOpen(c)
    /\ UNCHANGED <<now, repoUrl, fs, remote, activeSessions, keyOrder,
                   callVars, sockVars, lost, poll>>

\* the logout branch (!shouldReconnect): the record s is marked disconnected
\* and the staging directory is removed with its content
LoggedOutKeepsStaging(s, path) ==
    /\ sessionObj' = [sessionObj EXCEPT ![s].status = "disconnected"]
    /\ fs' = fs

LoggedOut(s, path) ==
    /\ sessionObj' = [sessionObj EXCEPT ![s].status = "disconnected"]
    /\ fs' = [fs EXCEPT ![path] = NoDir]

\* connection === 'close' with statusCode === DisconnectReason.loggedOut;
\* the listener is called for every event, whatever earlier listener runs
\* are suspended in
ConnectionCloseLoggedOutAfterUpload(c) ==
    /\ c \in subscribed
    /\ \A t \in uploads : t.sock # c
    /\ emitted' = [emitted EXCEPT ![c] = @ + 1]
    /\ LoggedOut(SessionOf(c), SessionPath(c))
    /\ UNCHANGED <<now, repoUrl, remote, activeSessions, keyOrder, callVars,
                   sockVars, lost, uploads, ended, poll>>

ConnectionCloseLoggedOut(c) ==
    /\ c \in subscribed
    /\ emitted' = [emitted EXCEPT ![c] = @ + 1]
    /\ LoggedOut(SessionOf(c), SessionPath(c))
    /\ UNCHANGED <<now, repoUrl, remote, activeSessions, keyOrder, callVars,
                   sockVars, lost, uploads, ended, poll>>

\* connection === 'close' with any other cause: shouldReconnect is true and
\* the listener does nothing
ConnectionCloseOtherRemovesStaging(c) ==
    /\ c \in subscribed
    /\ emitted' = [emitted EXCEPT ![c] = @ + 1]
    /\ fs' = [fs EXCEPT ![SessionPath(c)] = NoDir]
    /\ UNCHANGED <<now, repoUrl, remote, regVars, callVars, sockVars,
                   lost, uploads, ended, poll>>

ConnectionCloseOther(c) ==
    /\ c \in subscribed
    /\ emitted' = [emitted EXCEPT ![c] = @ + 1]
    /\ UNCHANGED <<now, repoUrl, fs, remote, regVars, callVars, sockVars,
                   lost, uploads, ended, poll>>

\* POST /api/disconnect-session { sessionId }: a Close event with the logout
\* cause is forced on the session registered under the id, which takes the
\* logout branch; a session that is already disconnected is left as it is
DisconnectSession(id) ==
    /\ id \in DOMAIN activeSessions
    /\ LET s == activeSessions[id] IN
        IF sessionObj[s].status = "disconnected"
        THEN UNCHANGED vars
        ELSE /\ emitted' = [emitted EXCEPT ![s] = @ + 1]
             /\ LoggedOut(s, sessionObj[s].sessionPath)
             /\ UNCHANGED <<now, repoUrl, remote, activeSessions, keyOrder,
                            callVars, sockVars, lost, uploads, ended,
                            poll>>

\* ---------------------------------------------- uploadSessionToGithub
Blob(t) == <<callPhone[t.sock], Head(t.files)>>

\* await octokit.repos.getContent(...).catch(() => ({ data: null })):
\* existingFile is the blob when it is there and the request succeeds; the
\* put is issued with existingFile?.sha
GetContentSettledSkipsNew(t, found) ==
    /\ t \in uploads
    /\ t.phase = "getContent"
    /\ found => Blob(t) \in remote
    /\ IF found
       THEN /\ uploads' = (uploads \ {t}) \cup
                   {[t EXCEPT !.phase = "put", !.sha = found,
                              !.tried = @ \cup {Head(t.files)}]}
            /\ UNCHANGED <<sessionObj, ended>>
       ELSE /\ sessionObj' = [sessionObj EXCEPT ![t.session].githubUrl =
                                  GithubUrlOf(repoUrl, callPhone[t.sock])]
            /\ uploads' = uploads \ {t}
            /\ ended' = ended \cup
                   {Ended(t.session, "returned", t.listed, t.tried, t.stored)}
    /\ UNCHANGED <<now, repoUrl, fs, remote, activeSessions, keyOrder,
                   callVars, sockVars, emitted, lost, poll>>

GetContentSettled(t, found) ==
    /\ t \in uploads
    /\ t.phase = "getContent"
    /\ found => Blob(t) \in remote
    /\ uploads' = (uploads \ {t}) \cup
           {[t EXCEPT !.phase = "put", !.sha = found,
                      !.tried = @ \cup {Head(t.files)}]}
    /\ UNCHANGED <<now, repoUrl, fs, remote, regVars, callVars, sockVars,
                   emitted, lost, ended, poll>>

\* the loop after one file, for the suspended upload t that has become u:
\* the next file is read (readFileSync throws when it is gone, which rejects
\* the upload), or the loop is over, the URL is returned and the listener
\* writes session.githubUrl
AfterFileRereadsRegistry(t, u) ==
    LET rest == Tail(u.files) IN
    IF rest = <<>>
    THEN /\ sessionObj' = [sessionObj EXCEPT ![SessionOf(u.sock)].githubUrl =
                               GithubUrlOf(repoUrl, callPhone[u.sock])]
         /\ uploads' = uploads \ {t}
         /\ ended' = ended \cup
                {Ended(u.session, "returned", u.listed, u.tried, u.stored)}
    ELSE IF Head(rest) \notin fs[SessionPath(u.sock)].files
    THEN /\ uploads' = uploads \ {t}
         /\ ended' = ended \cup
                {Ended(u.session, "readError", u.listed, u.tried, u.stored)}
         /\ UNCHANGED sessionObj
    ELSE /\ uploads' = (uploads \ {t}) \cup
                {[u EXCEPT !.files = rest, !.phase = "getContent", !.sha = FALSE]}
         /\ UNCHANGED <<sessionObj, ended>>

AfterFile(t, u) ==
    LET rest == Tail(u.files) IN
    IF rest = <<>>
    THEN /\ sessionObj' = [sessionObj EXCEPT ![u.session].githubUrl =
                               GithubUrlOf(repoUrl, callPhone[u.sock])]
         /\ uploads' = uploads \ {t}
         /\ ended' = ended \cup
                {Ended(u.session, "returned", u.listed, u.tried, u.stored)}
    ELSE IF Head(rest) \notin fs[SessionPath(u.sock)].files
    THEN /\ uploads' = uploads \ {t}
         /\ ended' = ended \cup
                {Ended(u.session, "readError", u.listed, u.tried, u.stored)}
         /\ UNCHANGED sessionObj
    ELSE /\ uploads' = (uploads \ {t}) \cup
                {[u EXCEPT !.files = rest, !.phase = "getContent", !.sha = FALSE]}
         /\ UNCHANGED <<sessionObj, ended>>

\* await octokit.repos.createOrUpdateFileContents(...) resolves: the store
\* accepts a create of a new blob or an update that carries the blob's sha
PutResolved(t) ==
    /\ t \in uploads
    /\ t.phase = "put"
    /\ parseGithubRepo(repoUrl).repo # "undefined"
    /\ t.sha <=> Blob(t) \in remote
    /\ remote' = remote \cup {Blob(t)}
    /\ AfterFile(t, [t EXCEPT !.stored = @ \cup {Head(t.files)}])
    /\ UNCHANGED <<now, repoUrl, fs, activeSessions, keyOrder, callVars,
                   sockVars, emitted, lost, poll>>

\* ... rejects: the inner catch logs and the loop goes on
PutRejectedMarksFailed(t) ==
    /\ t \in uploads
    /\ t.phase = "put"
    /\ sessionObj' = [sessionObj EXCEPT ![t.session].status = "failed"]
    /\ uploads' = uploads \ {t}
    /\ ended' = ended \cup
           {Ended(t.session, "readError", t.listed, t.tried, t.stored)}
    /\ UNCHANGED <<now, repoUrl, fs, remote, activeSessions, keyOrder,
                   callVars, sockVars, emitted, lost, poll>>

PutRejected(t) ==
    /\ t \in uploads
    /\ t.phase = "put"
    /\ AfterFile(t, t)
    /\ UNCHANGED <<now, repoUrl, fs, remote, activeSessions, keyOrder,
                   callVars, sockVars, emitted, lost, poll>>

\* ------------------------------------------------------- read handlers
\* GET session-status: answers GetStatus(id), writes nothing
SessionStatus(id) ==
    /\ GetStatus(id).code \in {200, 404}
    /\ UNCHANGED vars

\* GET sessions: answers 200 with ListConnected, writes nothing
SessionsList ==
    /\ Len(ListConnected) <= Len(keyOrder)
    /\ UNCHANGED vars

\* ------------------------------------------- pollSessionStatus (browser)
\* the page got { success: true, sessionId } for call c and starts the
\* interval timer
PollStart(c) ==
    /\ res[c] = 200
    /\ poll = NoPoll
    /\ poll' = [sessionId |-> SessionId(c), active |-> TRUE,
                attempts |-> 0, inflight |-> 0]
    /\ UNCHANGED <<now, repoUrl, fs, remote, regVars, callVars, sockVars,
                   emitted, lost, uploads, ended>>

\* the timer fires: attempts++ and the fetch is sent
PollFire ==
    /\ poll.active
    /\ poll' = [poll EXCEPT !.attempts = @ + 1, !.inflight = @ + 1]
    /\ UNCHANGED <<now, repoUrl, fs, remote, regVars, callVars, sockVars,
                   emitted, lost, uploads, ended>>

\* what the callback does with the body of a response: the timer is cleared
\* on connected, on failed, and otherwise when attempts >= maxAttempts
AfterResponse(data) ==
    IF data.status = "connected" THEN FALSE
    ELSE IF data.status = "failed" THEN FALSE
    ELSE IF poll.attempts >= maxAttempts THEN FALSE
    ELSE poll.active

\* fetch and response.json() resolve with the answer of the session-status
\* handler
PollResponse ==
    /\ poll.inflight > 0
    /\ poll' = [poll EXCEPT !.inflight = @ - 1,
                            !.active = AfterResponse(GetStatus(poll.sessionId))]
    /\ UNCHANGED <<now, repoUrl, fs, remote, regVars, callVars, sockVars,
                   emitted, lost, uploads, ended>>

\* fetch or response.json() rejects: the catch logs, the timer stays
PollNetworkError ==
    /\ poll.inflight > 0
    /\ poll' = [poll EXCEPT !.inflight = @ - 1]
    /\ UNCHANGED <<now, repoUrl, fs, remote, regVars, callVars, sockVars,
                   emitted, lost, uploads, ended>>

\* the ids a client may ask for
QueryIds(times) == {SessionIdOf(p, t) : p \in Phones, t \in times}

\* ------------------------------------------------------------------ Next
Next ==
    \/ now < MaxTime /\ Tick
    \/ \E raw \in RawInputs : nCalls < MaxCalls /\ RejectPairing(raw)
    \/ \E raw \in RawInputs : nCalls < MaxCalls /\ RequestPairing(raw)
    \/ \E raw \in RawInputs : nCalls < MaxCalls /\ RequestPairingMkdirThrows(raw)
    \/ \E c \in Calls : AuthStateRejected(c)
    \/ \E c \in Calls : MakeSocketThrows(c)
    \/ \E c \in Calls : StartPairingRequestCode(c)
    \/ \E c \in Calls : StartPairingResumed(c)
    \/ \E c \in Calls : PairingCodeResolved(c, RawCode)
    \/ \E c \in Calls : PairingCodeRejected(c)
    \/ \E c \in Calls, f \in Files, reg \in BOOLEAN : CredsUpdate(c, f, reg)
    \/ \E c \in Calls : Emitted < MaxEvents /\ EventLost(c)
    \/ \E c \in Calls : Emitted < MaxEvents /\ ConnectionOpen(c)
    \/ \E c \in Calls : Emitted < MaxEvents /\ ConnectionCloseLoggedOut(c)
    \/ \E c \in Calls : Emitted < MaxEvents /\ ConnectionCloseOther(c)
    \/ \E t \in uploads, found \in BOOLEAN : GetContentSettled(t, found)
    \/ \E t \in uploads : PutResolved(t)
    \/ \E t \in uploads : PutRejected(t)
    \/ \E id \in QueryIds(Times) : Emitted < MaxEvents /\ DisconnectSession(id)
    \/ \E id \in QueryIds(Times) : SessionStatus(id)
    \/ SessionsList

Spec == Init /\ [][Next]_vars

\* the runs of the program with a single pairing request, within the bounds
\* DeepTime, DeepEvents and DeepFiles; the staging directories start empty,
\* so the one request is never a resumed one (StartPairingResumed needs an
\* earlier session and is a step of Next only)
NextDeep ==
    \/ now < DeepTime /\ Tick
    \/ \E raw \in RawInputs : nCalls = 0 /\ RejectPairing(raw)
    \/ \E raw \in RawInputs : nCalls = 0 /\ RequestPairing(raw)
    \/ \E raw \in RawInputs : nCalls = 0 /\ RequestPairingMkdirThrows(raw)
    \/ \E c \in Calls : AuthStateRejected(c)
    \/ \E c \in Calls : MakeSocketThrows(c)
    \/ \E c \in Calls : StartPairingRequestCode(c)
    \/ \E c \in Calls : PairingCodeResolved(c, RawCode)
    \/ \E c \in Calls : PairingCodeRejected(c)
    \/ \E c \in Calls, f \in DeepFileSet, reg \in BOOLEAN : CredsUpdate(c, f, reg)
    \/ \E c \in Calls : Emitted < DeepEvents /\ EventLost(c)
    \/ \E c \in Calls : Emitted < DeepEvents /\ ConnectionOpen(c)
    \/ \E c \in Calls : Emitted < DeepEvents /\ ConnectionCloseLoggedOut(c)
    \/ \E c \in Calls : Emitted < DeepEvents /\ ConnectionCloseOther(c)
    \/ \E t \in uploads, found \in BOOLEAN : GetContentSettled(t, found)
    \/ \E t \in uploads : PutResolved(t)
    \/ \E t \in uploads : PutRejected(t)
    \/ \E id \in QueryIds(0..DeepTime) : Emitted < DeepEvents /\ DisconnectSession(id)
    \/ \E id \in QueryIds(0..DeepTime) : SessionStatus(id)
    \/ SessionsList

SpecDeep == Init /\ [][NextDeep]_vars

\* the pairing of a single request, up to its answer, with every code of
\* RawCodes as the transport's answer
NextCode ==
    \/ now < DeepTime /\ Tick
    \/ \E raw \in RawInputs : nCalls = 0 /\ RejectPairing(raw)
    \/ \E raw \in RawInputs : nCalls = 0 /\ RequestPairing(raw)
    \/ \E raw \in RawInputs : nCalls = 0 /\ RequestPairingMkdirThrows(raw)
    \/ \E c \in Calls : AuthStateRejected(c)
    \/ \E c \in Calls : MakeSocketThrows(c)
    \/ \E c \in Calls : StartPairingRequestCode(c)
    \/ \E c \in Calls, code \in RawCodes : PairingCodeResolved(c, code)
    \/ \E c \in Calls : PairingCodeRejected(c)

SpecCode == Init /\ [][NextCode]_vars

\* a single pairing request, the events of its socket (no credential file
\* is staged, so every upload settles inside the Open listener) and the
\* browser polling for the session
NextPoll ==
    \/ \E raw \in RawInputs : nCalls = 0 /\ RejectPairing(raw)
    \/ \E raw \in RawInputs : nCalls = 0 /\ RequestPairing(raw)
    \/ \E raw \in RawInputs : nCalls = 0 /\ RequestPairingMkdirThrows(raw)
    \/ \E c \in Calls : AuthStateRejected(c)
    \/ \E c \in Calls : MakeSocketThrows(c)
    \/ \E c \in Calls : StartPairingRequestCode(c)
    \/ \E c \in Calls : PairingCodeResolved(c, RawCode)
    \/ \E c \in Calls : PairingCodeRejected(c)
    \/ \E c \in Calls : Emitted < MaxEvents /\ ConnectionOpen(c)
    \/ \E c \in Calls : Emitted < MaxEvents /\ ConnectionCloseLoggedOut(c)
    \/ \E c \in Calls : Emitted < MaxEvents /\ ConnectionCloseOther(c)
    \/ \E c \in Calls : PollStart(c)
    \/ poll.attempts < MaxPolls /\ poll.inflight < MaxInflight /\ PollFire
    \/ PollResponse
    \/ PollNetworkError

SpecPoll == Init /\ [][NextPoll]_vars

TypeOK ==
    /\ now \in Nat
    /\ repoUrl \in RepoUrls
    /\ nCalls \in 0..MaxCalls
    /\ DOMAIN sessionObj \subseteq Calls
    /\ \A id \in DOMAIN activeSessions : activeSessions[id] \in DOMAIN sessionObj
    /\ \A c \in DOMAIN sessionObj :
          sessionObj[c].status \in {"waiting", "connected", "disconnected"}
    /\ poll.attempts \in Nat /\ poll.inflight \in Nat /\ poll.active \in BOOLEAN


\* ---------------------------------------------------------------- claims

\* C1: a startPairing call that failed was answered with the error (500)
\* and the registry holds no record of that call under the id the call
\* generated.
C1_FailedCallLeavesNoRecord ==
    \A c \in Calls :
        pc[c] = "failed" =>
            /\ res[c] = 500
            /\ ~(/\ SessionId(c) \in DOMAIN activeSessions
                 /\ activeSessions[SessionId(c)] = c)

\* C2: the status of a record only changes waiting -> connected,
\* waiting -> disconnected or connected -> disconnected.
StatusSteps == {<<"waiting", "connected">>, <<"waiting", "disconnected">>,
                <<"connected", "disconnected">>}

C2_StatusMonotonic ==
    [][\A c \in DOMAIN sessionObj :
          \/ sessionObj'[c].status = sessionObj[c].status
          \/ <<sessionObj[c].status, sessionObj'[c].status>> \in StatusSteps]_vars

\* C3: connectedAt is written once: an Open event sets status = connected,
\* and a record whose connectedAt is set keeps that value.
C3_ConnectedAtWrittenOnce ==
    [][/\ \A c \in Calls :
             ConnectionOpen(c) =>
                 /\ sessionObj'[SessionOf(c)].status = "connected"
                 /\ sessionObj'[SessionOf(c)].connectedAt # NoTime
       /\ \A c \in DOMAIN sessionObj :
             sessionObj[c].connectedAt # NoTime =>
                 sessionObj'[c].connectedAt = sessionObj[c].connectedAt]_vars

\* C4: after the listener handled a Close whose cause is not a logout, the
\* record's status is disconnected.
C4_CloseOtherDisconnects ==
    [][\A c \in Calls :
          ConnectionCloseOther(c) =>
              sessionObj'[SessionOf(c)].status = "disconnected"]_vars

\* C5: a disconnected record (disconnected is only written by the logout
\* branch) has no handle attached and its staging directory does not exist.
C5_LoggedOutHasNoHandleNoStaging ==
    \A c \in DOMAIN sessionObj :
        sessionObj[c].status = "disconnected" =>
            /\ sessionObj[c].sock = NoSock
            /\ ~fs[sessionObj[c].sessionPath].exists

\* C6: no connection.update event emitted by a socket between its creation
\* and startPairing returning went undelivered.
C6_NoEventLost ==
    \A c \in Calls :
        pc[c] \in {"requesting", "returned"} => lost[c] = 0

\* C7: the record is in the registry with status waiting while the
\* pairing-code request is pending, and GetStatus of a returned id answers
\* waiting (not 404) as long as no connection.update event was handled for
\* that id.
Handled(id) ==
    \E c \in socks : SessionId(c) = id /\ emitted[c] - lost[c] > 0

C7_WaitingBeforeAnyEvent ==
    \A c \in Calls :
        /\ pc[c] = "requesting" =>
              /\ SessionId(c) \in DOMAIN activeSessions
              /\ ~Handled(SessionId(c)) =>
                     sessionObj[SessionOf(c)].status = "waiting"
        /\ (res[c] = 200 /\ ~Handled(SessionId(c))) =>
              /\ GetStatus(SessionId(c)).code = 200
              /\ GetStatus(SessionId(c)).status = "waiting"

C7_Witness ==
    \E c \in Calls :
        /\ res[c] = 200
        /\ pairingCode[c] # NoCode
        /\ ~Handled(SessionId(c))
        /\ GetStatus(SessionId(c)).status = "waiting"

\* C8: the ids generated by different startPairing calls are different.
Started == {c \in Calls : pc[c] \notin {"idle", "rejected"}}

C8_SessionIdsUnique ==
    \A c1, c2 \in Started : c1 # c2 => SessionId(c1) # SessionId(c2)

\* C9: the records under two different ids of the registry have different
\* staging paths.
C9_StagingPathsDistinct ==
    \A id1, id2 \in DOMAIN activeSessions :
        id1 # id2 =>
            sessionObj[activeSessions[id1]].sessionPath #
                sessionObj[activeSessions[id2]].sessionPath

\* C10: while the listener of one event is still under way for a record
\* (suspended in the upload, its githubUrl write still to come), no other
\* listener run changes that record.
C10_HandlersNotInterleaved ==
    [][\A t \in uploads :
          t \in uploads' => sessionObj'[t.session] = sessionObj[t.session]]_vars


\* C11: the sessions handler lists exactly the records of the registry whose
\* status is connected, each with its id, phoneNumber, connectedAt and
\* githubUrl, in the registry's insertion order.
IsConnectedId(id) == sessionObj[activeSessions[id]].status = "connected"

C11_ListConnectedExact ==
    LET L == ListConnected IN
    /\ [i \in 1..Len(L) |-> L[i].id] = SelectSeq(keyOrder, IsConnectedId)
    /\ {L[i].id : i \in 1..Len(L)} =
           {id \in DOMAIN activeSessions : IsConnectedId(id)}
    /\ Len(L) = Cardinality({id \in DOMAIN activeSessions : IsConnectedId(id)})
    /\ \A i \in 1..Len(L) :
           LET session == sessionObj[activeSessions[L[i].id]] IN
           /\ L[i].phoneNumber = session.phoneNumber
           /\ L[i].connectedAt = session.connectedAt
           /\ L[i].githubUrl = session.githubUrl

C11_Witness ==
    /\ Len(keyOrder) = 2
    /\ Len(ListConnected) = 1
    /\ ListConnected[1].id = keyOrder[2]
    /\ sessionObj[activeSessions[keyOrder[1]]].status = "waiting"


\* C12: a record that was connected and then logged out stays in the
\* registry: from then on GetStatus of its id answers 200 with status
\* disconnected and the sessions list does not contain the id.
ListedIds == {ListConnected[i].id : i \in 1..Len(ListConnected)}

C12_LoggedOutStaysQueryable ==
    [][\A id \in DOMAIN activeSessions :
          (/\ sessionObj[activeSessions[id]].status = "disconnected"
           /\ sessionObj[activeSessions[id]].connectedAt # NoTime) =>
              /\ id \in DOMAIN activeSessions'
              /\ GetStatus(id)'.code = 200
              /\ GetStatus(id)'.status = "disconnected"
              /\ id \notin ListedIds']_vars

\* C13: GetStatus answers 404 exactly for the ids without a record and
\* otherwise 200 with the record's current status, phoneNumber, connectedAt
\* and githubUrl; the two read handlers change nothing.
C13_AccessorsReadOnly ==
    /\ [](\A id \in QueryIds(0..now + 1) \cup DOMAIN activeSessions :
             IF id \in DOMAIN activeSessions
             THEN LET session == sessionObj[activeSessions[id]] IN
                  /\ GetStatus(id).code = 200
                  /\ GetStatus(id).status = session.status
                  /\ GetStatus(id).phoneNumber = session.phoneNumber
                  /\ GetStatus(id).connectedAt = session.connectedAt
                  /\ GetStatus(id).githubUrl = session.githubUrl
             ELSE GetStatus(id).code = 404)
    /\ [][((\E id \in QueryIds(0..now + 1) : SessionStatus(id)) \/ SessionsList) =>
              UNCHANGED <<activeSessions, keyOrder, sessionObj, fs>>]_vars

C13_Witness ==
    \E id1, id2 \in QueryIds(0..now + 1) :
        /\ GetStatus(id1).code = 404
        /\ GetStatus(id2).code = 200
        /\ GetStatus(id2).status = "disconnected"
        /\ GetStatus(id2).connectedAt # NoTime


\* C14: a failing upload leaves every status as it is: a rejected put, and
\* an upload that ends with an error, change no record's status, and the
\* record of an Open whose upload fails at once is connected after the
\* listener ran.
UploadFailed(e) == e.outcome # "returned" \/ e.stored # e.tried

C14_UploadFailureKeepsStatus ==
    [][/\ \A t \in uploads :
             PutRejected(t) =>
                 \A c \in DOMAIN sessionObj :
                     sessionObj'[c].status = sessionObj[c].status
       /\ \A e \in ended' \ ended :
             UploadFailed(e) =>
                 IF emitted' # emitted
                 THEN sessionObj'[e.session].status = "connected"
                 ELSE \A c \in DOMAIN sessionObj :
                          sessionObj'[c].status = sessionObj[c].status]_vars

C14_Witness ==
    \E e \in ended :
        /\ UploadFailed(e)
        /\ e.tried # {}
        /\ sessionObj[e.session].status = "connected"

\* C15: every upload that listed N > 0 files ended with a put attempted for
\* each of them and with githubUrl written on the record.
C15_EveryFileAttempted ==
    \A e \in ended :
        e.listed # {} =>
            /\ e.tried = e.listed
            /\ e.outcome = "returned"
            /\ sessionObj[e.session].githubUrl # NoUrl

\* C16: with GITHUB_REPO_URL unset or not of the form owner/repo, every
\* upload fails on the configuration: no file is listed, probed or put and
\* no record has a githubUrl.
InvalidRepoUrl(url) == url \in {"unset", "o"}

C16_InvalidConfigFailsFast ==
    InvalidRepoUrl(repoUrl) =>
        /\ uploads = {}
        /\ \A e \in ended : e.outcome = "configError"
        /\ \A c \in DOMAIN sessionObj : sessionObj[c].githubUrl = NoUrl

\* C17 (as claimed): a record has a githubUrl only if every file the upload
\* listed was put successfully.
C17_UrlOnlyAfterFullUpload ==
    \A e \in ended :
        e.outcome = "returned" => e.stored = e.listed

\* C17 (amended): a record has a githubUrl only if an upload for it ran to
\* its end, and an upload that ran to its end has attempted a put for every
\* file it listed (the puts may have failed).
C17_UrlOnlyAfterAllAttempted ==
    /\ \A e \in ended :
          e.outcome = "returned" => e.tried = e.listed /\ e.stored \subseteq e.tried
    /\ \A c \in DOMAIN sessionObj :
          sessionObj[c].githubUrl # NoUrl =>
              \E e \in ended : e.session = c /\ e.outcome = "returned"

C17_Witness ==
    \E e \in ended :
        /\ e.outcome = "returned"
        /\ e.listed # {}
        /\ e.stored # e.listed
        /\ sessionObj[e.session].githubUrl # NoUrl


\* C18: a pairing request whose phoneNumber is missing, has 0 as its first
\* digit, or has fewer than 10 or more than 15 digits is answered 400 and
\* changes neither the registry nor the staging directories nor the sockets.
DigitPositions(raw) == {i \in DOMAIN raw : raw[i] \in Digits}

ClaimedInvalid(raw) ==
    \/ raw = <<>>
    \/ \E i \in DigitPositions(raw) :
          raw[i] = "0" /\ \A j \in DigitPositions(raw) : i <= j
    \/ Cardinality(DigitPositions(raw)) < 10
    \/ Cardinality(DigitPositions(raw)) > 15

C18_InvalidRequestRejected ==
    [][\A raw \in RawInputs :
          (/\ ClaimedInvalid(raw)
           /\ nCalls' = nCalls + 1
           /\ \/ RejectPairing(raw)
              \/ RequestPairing(raw)
              \/ RequestPairingMkdirThrows(raw)) =>
              /\ res'[nCalls'] = 400
              /\ UNCHANGED <<activeSessions, keyOrder, sessionObj, fs, socks,
                             subscribed>>]_vars

C18_Witness ==
    \E c \in Calls :
        /\ res[c] = 400
        /\ pc[c] = "rejected"
        /\ nCalls = c
        /\ \A p \in Paths : ~fs[p].exists


C20_ConnectedAtIffEverConnected ==
    [][\A c \in DOMAIN sessionObj' :
          IF c \notin DOMAIN sessionObj
          THEN /\ sessionObj'[c].connectedAt = NoTime
               /\ sessionObj'[c].status # "connected"
          ELSE sessionObj'[c].connectedAt # NoTime <=>
                   \/ sessionObj[c].connectedAt # NoTime
                   \/ sessionObj'[c].status = "connected"]_vars

\* a record that went waiting -> disconnected next to one that is connected
C20_Witness ==
    \E c1, c2 \in DOMAIN sessionObj :
        /\ sessionObj[c1].status = "disconnected"
        /\ sessionObj[c1].connectedAt = NoTime
        /\ sessionObj[c2].status = "connected"
        /\ sessionObj[c2].connectedAt # NoTime

\* a record that was connected keeps connectedAt after it disconnects
C20_WitnessKept ==
    \E c \in DOMAIN sessionObj :
        /\ sessionObj[c].status = "disconnected"
        /\ sessionObj[c].connectedAt # NoTime


\* C21: no record of the registry ever has the status failed: every record
\* is waiting, connected or disconnected.
C21_NeverFailed ==
    /\ \A id \in DOMAIN activeSessions :
          sessionObj[activeSessions[id]].status \in
              {"waiting", "connected", "disconnected"}
    /\ \A c \in DOMAIN sessionObj : sessionObj[c].status # "failed"

\* the pairing of a stored record failed (500): the record is still waiting
C21_Witness ==
    \E c \in DOMAIN sessionObj :
        /\ pc[c] = "failed"
        /\ res[c] = 500
        /\ SessionId(c) \in DOMAIN activeSessions
        /\ activeSessions[SessionId(c)] = c
        /\ sessionObj[c].status = "waiting"


\* C22: an Open event handled for a record that is already connected, or
\* that has an upload under way, starts no upload, and no record ever has
\* two uploads under way.
UploadsOf(s) == {t \in uploads : t.session = s}

C22_UploadOncePerConnection ==
    /\ [](\A s \in DOMAIN sessionObj : Cardinality(UploadsOf(s)) <= 1)
    /\ [][\A c \in Calls :
             (/\ ConnectionOpen(c)
              /\ \/ sessionObj[SessionOf(c)].status = "connected"
                 \/ UploadsOf(SessionOf(c)) # {}) =>
                 /\ uploads' = uploads
                 /\ ended' = ended]_vars


\* C23: while an upload is suspended (in getContent or in a put that may
\* never settle), the listener still takes the events of the same socket
\* and of every other socket, a Close of the same session takes effect with
\* the upload still under way, and pairing requests are still served.
C23_UploadDoesNotBlock ==
    /\ [](uploads # {} =>
             /\ \A t \in uploads :
                   /\ ENABLED ConnectionCloseLoggedOut(t.sock)
                   /\ ENABLED ConnectionCloseOther(t.sock)
             /\ \A c \in subscribed : ENABLED ConnectionOpen(c)
             /\ nCalls + 1 \in Calls =>
                   \A raw \in Phones : ENABLED RequestPairing(raw)
             /\ \A c \in Calls :
                   pc[c] = "requesting" => ENABLED PairingCodeResolved(c, RawCode))
    /\ [][\A t \in uploads :
             ConnectionCloseLoggedOut(t.sock) =>
                 /\ sessionObj'[SessionOf(t.sock)].status = "disconnected"
                 /\ t \in uploads']_vars

\* a put is pending, its session was closed in the meantime and another
\* pairing request was taken up
C23_Witness ==
    \E t \in uploads :
        /\ t.phase = "put"
        /\ sessionObj[t.session].status = "disconnected"
        /\ \E c \in Calls : c > t.sock /\ pc[c] \in {"requesting", "returned"}


\* C24: a listener run for an event of the session with id A (the Open, the
\* logout Close, any other Close, and the continuation of an Open after the
\* upload) leaves the record under every other id B as it is: its status,
\* connectedAt and githubUrl are the same before and after.
RecordOf(id) == sessionObj[activeSessions[id]]

OthersUnchanged(idA) ==
    \A idB \in DOMAIN activeSessions :
        idB # idA =>
            /\ idB \in DOMAIN activeSessions'
            /\ RecordOf(idB)'.status = RecordOf(idB).status
            /\ RecordOf(idB)'.connectedAt = RecordOf(idB).connectedAt
            /\ RecordOf(idB)'.githubUrl = RecordOf(idB).githubUrl

C24_EventsOfOtherIdsIndependent ==
    [][/\ \A c \in Calls :
             (\/ ConnectionOpen(c)
              \/ ConnectionCloseLoggedOut(c)
              \/ ConnectionCloseOther(c)) => OthersUnchanged(SessionId(c))
       /\ \A t \in uploads :
             (\/ \E found \in BOOLEAN : GetContentSettled(t, found)
              \/ PutResolved(t)
              \/ PutRejected(t)) => OthersUnchanged(SessionId(t.sock))]_vars

\* two ids: the events of the second one were handled (it is disconnected
\* after having been connected), the record under the first is untouched
C24_Witness ==
    /\ Len(keyOrder) = 2
    /\ RecordOf(keyOrder[1]).status = "waiting"
    /\ RecordOf(keyOrder[1]).sock \in subscribed
    /\ RecordOf(keyOrder[2]).status = "disconnected"
    /\ RecordOf(keyOrder[2]).connectedAt # NoTime


\* C25: a Close whose cause is not a logout leaves every staging directory
\* and its content as it is, and a pairing request that finds registered
\* credentials staged for its number goes on as a resumed session: it is
\* answered 200 without a pairing code and without a code request.
C25_CloseOtherKeepsStaging ==
    [][/\ \A c \in Calls : ConnectionCloseOther(c) => fs' = fs
       /\ \A c \in Calls :
             (/\ pc[c] = "auth"
              /\ fs[SessionPath(c)].registered
              /\ pc'[c] \notin {"auth", "failed"}) =>
                 /\ StartPairingResumed(c)
                 /\ pc'[c] = "returned"
                 /\ res'[c] = 200
                 /\ pairingCode'[c] = NoCode
                 /\ fs'[SessionPath(c)].files = fs[SessionPath(c)].files]_vars

\* the listener of the first call handled an event that changed nothing (a
\* Close without logout), and a later call for the same number was resumed
\* from the credentials the first one staged
C25_Witness ==
    \E c1, c2 \in Calls :
        /\ c1 < c2
        /\ callPhone[c1] = callPhone[c2]
        /\ callTime[c1] # callTime[c2]
        /\ emitted[c1] - lost[c1] > 0
        /\ c1 \in DOMAIN sessionObj
        /\ sessionObj[c1].status = "waiting"
        /\ pc[c2] = "returned"
        /\ pairingCode[c2] = NoCode
        /\ fs[SessionPath(c2)].files # {}


\* C26: every put that is issued comes after the probe of its file and
\* carries the sha of the existing blob exactly when the repository holds a
\* blob at sessions/<phoneNumber>/<file>.
C26_PutCarriesShaIffBlobExists ==
    \A t \in uploads :
        t.phase = "put" =>
            /\ Head(t.files) \in t.tried
            /\ t.sha <=> Blob(t) \in remote


\* C27: startPairing requests a pairing code exactly when the staged
\* credentials are not registered.  A call enters the code request once,
\* from the socket set-up and only without registered credentials; when the
\* request resolves the call is answered 200 with a non-empty code; a call
\* with registered credentials is answered 200 without a code.
C27_CodeRequestedIffUnregistered ==
    [][\A c \in Calls :
          /\ (pc[c] = "auth" /\ pc'[c] \notin {"auth", "failed"}) =>
                 IF fs[SessionPath(c)].registered
                 THEN /\ pc'[c] = "returned"
                      /\ res'[c] = 200
                      /\ pairingCode'[c] = NoCode
                 ELSE /\ pc'[c] = "requesting"
                      /\ res'[c] = 0
          /\ (pc[c] # "requesting" /\ pc'[c] = "requesting") => pc[c] = "auth"
          /\ (pc[c] = "requesting" /\ pc'[c] # "requesting") =>
                 \/ pc'[c] = "failed" /\ res'[c] = 500
                 \/ /\ pc'[c] = "returned"
                    /\ res'[c] = 200
                    /\ pairingCode'[c] # NoCode
                    /\ Len(pairingCode'[c]) > 0
          /\ pc[c] = "returned" =>
                 pc'[c] = "returned" /\ pairingCode'[c] = pairingCode[c]]_vars

\* a first-time call answered with a code and a resumed one answered without
C27_Witness ==
    \E c1, c2 \in Calls :
        /\ res[c1] = 200 /\ pairingCode[c1] # NoCode
        /\ res[c2] = 200 /\ pairingCode[c2] = NoCode
        /\ pc[c2] = "returned"

\* C28: for every non-empty code of the transport the formatted code is the
\* code's characters in order with one separator after every fourth
\* character that has a successor: groups of exactly four, the last one of
\* one to four, and removing the separators gives back the code.
NotSeparator(ch) == ch # "-"

C28_FormatCodeGroupsOfFour ==
    [][\A c \in Calls, code \in RawCodes :
          PairingCodeResolved(c, code) =>
              LET f == pairingCode'[c] IN
              /\ Len(f) = Len(code) + ((Len(code) - 1) \div 4)
              /\ \A i \in 1..Len(f) :
                     IF i % 5 = 0 THEN f[i] = "-"
                     ELSE f[i] = code[i - (i \div 5)]
              /\ f[Len(f)] # "-"
              /\ SelectSeq(f, NotSeparator) = code]_vars

\* a code of more than one group whose last group is shorter than four
C28_Witness ==
    \E c \in Calls :
        /\ res[c] = 200
        /\ Len(pairingCode[c]) > 5
        /\ pairingCode[c][5] = "-"
        /\ Len(pairingCode[c]) % 5 \in {1, 2, 3}


\* C29: the browser's polling stops: a response reporting connected or
\* failed clears the timer, and the timer never fires more than maxAttempts
\* times, whatever the responses are and when requests fail.
C29_PollingStops ==
    /\ [](poll.attempts <= maxAttempts)
    /\ [][(PollResponse /\ GetStatus(poll.sessionId).status \in
                               {"connected", "failed"}) =>
              ~poll'.active]_vars


\* C30: whenever the connection.update listener of a call can run, the
\* registry holds a record under the call's id, and so does it for every
\* listener run suspended in an upload: no id is ever removed from the
\* registry and a listener is attached only after its record was stored.
C30_HandlerFindsRecord ==
    /\ [](/\ \A c \in subscribed :
                /\ SessionId(c) \in DOMAIN activeSessions
                /\ SessionOf(c) \in DOMAIN sessionObj
          /\ \A t \in uploads :
                /\ t.session \in DOMAIN sessionObj
                /\ SessionId(t.sock) \in DOMAIN activeSessions)
    /\ [][/\ DOMAIN activeSessions \subseteq DOMAIN activeSessions'
          /\ \A c \in subscribed' \ subscribed :
                SessionId(c) \in DOMAIN activeSessions']_vars

\* the listener of a socket ran twice, the second time for a Close with
\* logout: the record is disconnected and still in the registry
C30_Witness ==
    \E c \in subscribed :
        /\ emitted[c] - lost[c] = 2
        /\ SessionId(c) \in DOMAIN activeSessions
        /\ sessionObj[SessionOf(c)].status = "disconnected"
        /\ sessionObj[SessionOf(c)].connectedAt # NoTime


\* C31: the githubUrl of a record whose status is disconnected is never
\* written: no step sets or changes it, in particular not the end of an
\* upload that was under way when the logout Close was handled.
C31_NoUrlAfterDisconnect ==
    [][\A c \in DOMAIN sessionObj :
          sessionObj[c].status = "disconnected" =>
              sessionObj'[c].githubUrl = sessionObj[c].githubUrl]_vars

\* C32: a record whose githubUrl is set has connectedAt set, in the
\* registry and in what GetStatus answers for it.
C32_UrlImpliesConnectedAt ==
    /\ \A c \in DOMAIN sessionObj :
          sessionObj[c].githubUrl # NoUrl => sessionObj[c].connectedAt # NoTime
    /\ \A id \in DOMAIN activeSessions :
          GetStatus(id).githubUrl # NoUrl => GetStatus(id).connectedAt # NoTime

\* the githubUrl was written by the listener's continuation after an upload
\* that had been suspended, on a record that was replaced in the registry
\* in the meantime or is the registered one
C32_Witness ==
    \E c \in DOMAIN sessionObj :
        /\ sessionObj[c].githubUrl # NoUrl
        /\ sessionObj[c].connectedAt # NoTime
        /\ \E e \in ended :
              e.session = c /\ e.outcome = "returned" /\ e.tried # {}

====
